---- MODULE Spec2Model ----
(***************************************************************************)
(* Model of the RabbitMQ transport of the servicebus package               *)
(* (rabbitmq_transport.go): the RabbitMQClient struct, its constructor,    *)
(* BindQueueToExchange, Send, Consume, Close and the consumer goroutine.   *)
(* The amqp library is modelled by the Lib* operators: every library call  *)
(* is recorded, with its arguments and outcome, in the trace of the client *)
(* call that issued it.                                                    *)
(***************************************************************************)
EXTENDS Integers, Sequences, FiniteSets, TLC

VARIABLES
    client,      \* the RabbitMQClient struct the caller holds (five fields)
    held,        \* TRUE when the caller holds a non-nil *RabbitMQClient
    conns,       \* amqp connections ever dialled, indexed by handle
    chans,       \* amqp channels ever opened, indexed by handle
    consumers,   \* delivery streams and the goroutine ranging over each
    lastCall,    \* the client call that returned last
    lastOps,     \* the library calls that call issued, in order
    ret,         \* what that call returned
    panicked     \* the process died of a nil dereference

vars == <<client, held, conns, chans, consumers, lastCall, lastOps, ret, panicked>>

\* ---- bounds -------------------------------------------------------------
MaxConns == 1
MaxConsumers == 1
MaxDeliveries == 2

\* ---- values -------------------------------------------------------------
Nil == 0
NilErr == "nil"
ErrClosed == "channel/connection is not open"
ErrIO == "io error"
ErrDial == "dial failed"
ErrMarshal == "json: unsupported type"
ErrNoConnection == "connection does not exist"
ErrNoChannel == "channel does not exist"
JSONSerializer == 1

ExchangeNames == {"", "ex"}
QueueNames == {"", "q"}
RoutingKeys == {"k1", "k2"}
BindingKeys == {"k1"}
Unserializable == "chan"
Payloads == {"p", Unserializable}
Message == [rk : RoutingKeys, payload : Payloads]

ZeroClient ==
    [Connection |-> Nil, Channel |-> Nil, Exchange |-> "", Queue |-> "",
     Serializer |-> Nil]

\* ---- the serializer -----------------------------------------------------
Marshal(m) ==
    IF m.payload = Unserializable
    THEN [body |-> <<>>, err |-> ErrMarshal]
    ELSE [body |-> <<"{", m.rk, m.payload, "}">>, err |-> NilErr]

Unmarshal(b) ==
    IF Len(b) = 4 /\ b[1] = "{" /\ b[4] = "}"
    THEN [msg |-> [rk |-> b[2], payload |-> b[3]], err |-> NilErr]
    ELSE [msg |-> [rk |-> "", payload |-> ""], err |-> "unexpected end of JSON input"]

GetRoutingKey(m) == m.rk

Malformed == <<"{">>
Bodies == {Marshal(m).body : m \in {x \in Message : Marshal(x).err = NilErr}}
              \cup {Malformed}

\* ---- the amqp library and the broker -------------------------------------
\* A world w carries the library/broker state through the calls of one
\* client call, and w.ops is the trace of the calls issued so far.
World ==
    [conns |-> conns, chans |-> chans, consumers |-> consumers, ops |-> <<>>]

Op(call, on, args, body, err, live) ==
    [call |-> call, on |-> on, args |-> args, body |-> body, err |-> err,
     live |-> live]

LastErr(w) == w.ops[Len(w.ops)].err

ConnLive(w, ch) == w.conns[w.chans[ch].conn].open

\* outcome of a call on channel ch that the peer would answer with ok
ChanErr(w, ch, ok) ==
    IF ~w.chans[ch].open THEN ErrClosed ELSE IF ok THEN NilErr ELSE ErrIO

LibDial(w, ok) ==
    IF ok
    THEN [w EXCEPT !.conns = Append(@, [open |-> TRUE, closeCalled |-> FALSE]),
                   !.ops = Append(@, Op("Dial", Len(w.conns) + 1, <<>>, <<>>, NilErr, TRUE))]
    ELSE [w EXCEPT !.ops = Append(@, Op("Dial", Nil, <<>>, <<>>, ErrDial, FALSE))]

LibChannel(w, c, ok) ==
    IF w.conns[c].open /\ ok
    THEN [w EXCEPT !.chans = Append(@, [conn |-> c, open |-> TRUE, closeCalled |-> FALSE]),
                   !.ops = Append(@, Op("Channel", Len(w.chans) + 1, <<>>, <<>>, NilErr, TRUE))]
    ELSE [w EXCEPT !.ops = Append(@, Op("Channel", Nil, <<>>, <<>>,
                                        IF w.conns[c].open THEN ErrIO ELSE ErrClosed,
                                        w.conns[c].open))]

\* the delivery streams of a channel are closed when the channel shuts down
ShutStreams(cs, dead) ==
    [i \in DOMAIN cs |-> IF cs[i].ch \in dead THEN [cs[i] EXCEPT !.closed = TRUE] ELSE cs[i]]

LibChannelClose(w, ch, ok) ==
    [w EXCEPT !.chans[ch].open = FALSE,
              !.chans[ch].closeCalled = TRUE,
              !.consumers = ShutStreams(@, {ch}),
              !.ops = Append(@, Op("Channel.Close", ch, <<>>, <<>>, ChanErr(w, ch, ok), ConnLive(w, ch)))]

LibConnectionClose(w, c, ok) ==
    LET dead == {i \in DOMAIN w.chans : w.chans[i].conn = c} IN
    [w EXCEPT !.conns[c].open = FALSE,
              !.conns[c].closeCalled = TRUE,
              !.chans = [i \in DOMAIN w.chans |->
                            IF i \in dead THEN [w.chans[i] EXCEPT !.open = FALSE] ELSE w.chans[i]],
              !.consumers = ShutStreams(@, dead),
              !.ops = Append(@, Op("Connection.Close", c, <<>>, <<>>,
                                   IF ~w.conns[c].open THEN ErrClosed
                                   ELSE IF ok THEN NilErr ELSE ErrIO,
                                   w.conns[c].open))]

LibExchangeDeclare(w, ch, name, ok) ==
    [w EXCEPT !.ops = Append(@, Op("ExchangeDeclare", ch, <<name, "direct">>, <<>>,
                                   ChanErr(w, ch, ok), ConnLive(w, ch)))]

LibQueueDeclare(w, ch, name, ok) ==
    [w EXCEPT !.ops = Append(@, Op("QueueDeclare", ch, <<name>>, <<>>,
                                   ChanErr(w, ch, ok), ConnLive(w, ch)))]

LibQueueBind(w, ch, queue, key, exchange, ok) ==
    [w EXCEPT !.ops = Append(@, Op("QueueBind", ch, <<queue, key, exchange>>, <<>>,
                                   ChanErr(w, ch, ok), ConnLive(w, ch)))]

LibPublish(w, ch, exchange, key, body, ok) ==
    [w EXCEPT !.ops = Append(@, Op("Publish", ch, <<exchange, key, "application/json">>, body,
                                   ChanErr(w, ch, ok), ConnLive(w, ch)))]

LibConsume(w, ch, queue, ok) ==
    LET err == ChanErr(w, ch, ok) IN
    [w EXCEPT !.consumers =
                  IF err = NilErr
                  THEN Append(@, [ch |-> ch, delivered |-> <<>>, pos |-> 0, closed |-> FALSE,
                                  handled |-> <<>>, started |-> FALSE, ser |-> Nil,
                                  done |-> FALSE])
                  ELSE @,
              !.ops = Append(@, Op("Channel.Consume", ch, <<queue>>, <<>>, err, ConnLive(w, ch)))]

\* ---- RabbitMQClient ------------------------------------------------------
\* variant: the teardown closes the channel and forgets the connection
closeChanelConnection_ChannelOnly(w, c, okCh, okConn) ==
    LibChannelClose(w, c.Channel, okCh)

closeChanelConnection(w, c, okCh, okConn) ==
    LibConnectionClose(LibChannelClose(w, c.Channel, okCh), c.Connection, okConn)

createExchange(w, c, ok) ==
    IF c.Exchange # "" THEN LibExchangeDeclare(w, c.Channel, c.Exchange, ok) ELSE w

\* variant: the queue is never declared
createQueue_NoDeclare(w, c, ok) == w

\* variant: the queue is declared whatever its name
createQueue_Always(w, c, ok) == LibQueueDeclare(w, c.Channel, c.Queue, ok)

createQueue(w, c, ok) ==
    IF c.Queue # "" THEN LibQueueDeclare(w, c.Channel, c.Queue, ok) ELSE w

\* error returned by createExchange / createQueue: that of the declare they
\* issued, nil when the name is empty and nothing was issued
StepErr(before, after) ==
    IF Len(after.ops) = Len(before.ops) THEN NilErr ELSE LastErr(after)

Commit(w, call, r, c, h) ==
    /\ conns' = w.conns
    /\ chans' = w.chans
    /\ consumers' = w.consumers
    /\ lastOps' = w.ops
    /\ lastCall' = call
    /\ ret' = r
    /\ client' = c
    /\ held' = h
    /\ panicked' = FALSE

Call(op, args) == [op |-> op, args |-> args]
Ret(nonNil, err) == [client |-> nonNil, err |-> err]

\* The caller keeps one client: it calls the constructor until a call
\* returns one, at most MaxConns connections being dialled.
NewRabbitMQClient(exchange, queue, okDial, okCh, okEx, okQ, okC1, okC2) ==
    /\ ~panicked
    /\ ~held
    /\ Len(conns) < MaxConns
    /\ LET call == Call("NewRabbitMQClient", <<exchange, queue>>)
           w1 == LibDial(World, okDial)
       IN
       IF LastErr(w1) # NilErr
       THEN Commit(w1, call, Ret(FALSE, LastErr(w1)), client, held)
       ELSE
       LET conn == w1.ops[Len(w1.ops)].on
           w2 == LibChannel(w1, conn, okCh)
       IN
       IF LastErr(w2) # NilErr
       THEN Commit(LibConnectionClose(w2, conn, okC2), call, Ret(FALSE, LastErr(w2)), client, held)
       ELSE
       LET c == [Connection |-> conn, Channel |-> w2.ops[Len(w2.ops)].on,
                 Exchange |-> exchange, Queue |-> queue, Serializer |-> JSONSerializer]
           w3 == createExchange(w2, c, okEx)
       IN
       IF StepErr(w2, w3) # NilErr
       THEN Commit(closeChanelConnection(w3, c, okC1, okC2), call, Ret(FALSE, StepErr(w2, w3)), client, held)
       ELSE
       LET w4 == createQueue(w3, c, okQ) IN
       IF StepErr(w3, w4) # NilErr
       THEN Commit(closeChanelConnection(w4, c, okC1, okC2), call, Ret(FALSE, StepErr(w3, w4)), client, held)
       ELSE Commit(w4, call, Ret(TRUE, NilErr), c, TRUE)

Panic(w, call) ==
    /\ conns' = w.conns
    /\ chans' = w.chans
    /\ consumers' = w.consumers
    /\ lastOps' = w.ops
    /\ lastCall' = Call("panic", <<call.op>>)
    /\ ret' = Ret(FALSE, "panic")
    /\ panicked' = TRUE
    /\ UNCHANGED <<client, held>>

BindQueueToExchange(routingKey, ok) ==
    /\ ~panicked
    /\ held
    /\ LET call == Call("BindQueueToExchange", <<routingKey>>) IN
       IF client.Channel = Nil
       THEN Panic(World, call)
       ELSE LET w1 == LibQueueBind(World, client.Channel, client.Queue, routingKey,
                                   client.Exchange, ok)
            IN Commit(w1, call, Ret(FALSE, LastErr(w1)), client, held)

\* variant: the message is serialized before the nil checks
Send_MarshalFirst(message, nilOk, okPub) ==
    /\ ~panicked
    /\ held
    /\ LET call == Call("Send", <<message.rk, message.payload>>)
           m == Marshal(message)
           w1 == [World EXCEPT !.ops = Append(@, Op("Marshal", Nil,
                                     <<message.rk, message.payload>>, m.body, m.err, TRUE))]
       IN
       IF client.Serializer = Nil /\ ~nilOk
       THEN Panic(World, call)
       ELSE IF m.err # NilErr
       THEN Commit(w1, call, Ret(FALSE, m.err), client, held)
       ELSE IF client.Connection = Nil
       THEN Commit(w1, call, Ret(FALSE, ErrNoConnection), client, held)
       ELSE IF client.Channel = Nil
       THEN Commit(w1, call, Ret(FALSE, ErrNoChannel), client, held)
       ELSE LET w2 == LibPublish(w1, client.Channel, client.Exchange,
                                 GetRoutingKey(message), m.body, okPub)
            IN Commit(w2, call, Ret(FALSE, LastErr(w2)), client, held)

\* variant: the message is published under the queue name
Send_RoutesByQueue(message, nilOk, okPub) ==
    /\ ~panicked
    /\ held
    /\ LET call == Call("Send", <<message.rk, message.payload>>) IN
       IF client.Connection = Nil
       THEN Commit(World, call, Ret(FALSE, ErrNoConnection), client, held)
       ELSE IF client.Channel = Nil
       THEN Commit(World, call, Ret(FALSE, ErrNoChannel), client, held)
       ELSE IF client.Serializer = Nil /\ ~nilOk
       THEN Panic(World, call)
       ELSE
       LET m == Marshal(message)
           w1 == [World EXCEPT !.ops = Append(@, Op("Marshal", Nil,
                                     <<message.rk, message.payload>>, m.body, m.err, TRUE))]
       IN
       IF m.err # NilErr
       THEN Commit(w1, call, Ret(FALSE, m.err), client, held)
       ELSE LET w2 == LibPublish(w1, client.Channel, client.Exchange,
                                 client.Queue, m.body, okPub)
            IN Commit(w2, call, Ret(FALSE, LastErr(w2)), client, held)

\* nilOk: whether a method of a nil *JSONSerializer runs instead of panicking
Send(message, nilOk, okPub) ==
    /\ ~panicked
    /\ held
    /\ LET call == Call("Send", <<message.rk, message.payload>>) IN
       IF client.Connection = Nil
       THEN Commit(World, call, Ret(FALSE, ErrNoConnection), client, held)
       ELSE IF client.Channel = Nil
       THEN Commit(World, call, Ret(FALSE, ErrNoChannel), client, held)
       ELSE IF client.Serializer = Nil /\ ~nilOk
       THEN Panic(World, call)
       ELSE
       LET m == Marshal(message)
           w1 == [World EXCEPT !.ops = Append(@, Op("Marshal", Nil,
                                     <<message.rk, message.payload>>, m.body, m.err, TRUE))]
       IN
       IF m.err # NilErr
       THEN Commit(w1, call, Ret(FALSE, m.err), client, held)
       ELSE LET w2 == LibPublish(w1, client.Channel, client.Exchange,
                                 GetRoutingKey(message), m.body, okPub)
            IN Commit(w2, call, Ret(FALSE, LastErr(w2)), client, held)

\* the go statement: the goroutine starts ranging over the stream just opened
Go(w, c) ==
    LET i == Len(w.consumers) IN
    [w EXCEPT !.consumers[i].started = TRUE,
              !.consumers[i].ser = c.Serializer,
              !.ops = Append(@, Op("go", i, <<>>, <<>>, NilErr, TRUE))]

Consume(ok) ==
    /\ ~panicked
    /\ held
    /\ (client.Connection # Nil /\ client.Channel # Nil
          /\ ChanErr(World, client.Channel, ok) = NilErr)
        => Len(consumers) < MaxConsumers
    /\ LET call == Call("Consume", <<>>) IN
       IF client.Connection = Nil
       THEN Commit(World, call, Ret(FALSE, ErrNoConnection), client, held)
       ELSE IF client.Channel = Nil
       THEN Commit(World, call, Ret(FALSE, ErrNoChannel), client, held)
       ELSE
       LET w1 == LibConsume(World, client.Channel, client.Queue, ok) IN
       IF LastErr(w1) # NilErr
       THEN Commit(w1, call, Ret(FALSE, LastErr(w1)), client, held)
       ELSE Commit(Go(w1, client), call, Ret(FALSE, NilErr), client, held)

\* variant: Close clears the pointers it has closed
Close_ClearsFields(okCh, okConn) ==
    /\ ~panicked
    /\ held
    /\ LET call == Call("Close", <<>>)
           cleared == [client EXCEPT !.Connection = Nil, !.Channel = Nil]
       IN
       IF client.Channel = Nil
       THEN Panic(World, call)
       ELSE
       LET w1 == LibChannelClose(World, client.Channel, okCh) IN
       IF LastErr(w1) # NilErr
       THEN Commit(w1, call, Ret(FALSE, LastErr(w1)), client, held)
       ELSE IF client.Connection = Nil
       THEN Panic(w1, call)
       ELSE LET w2 == LibConnectionClose(w1, client.Connection, okConn)
            IN Commit(w2, call, Ret(FALSE, LastErr(w2)), cleared, held)

Close(okCh, okConn) ==
    /\ ~panicked
    /\ held
    /\ LET call == Call("Close", <<>>) IN
       IF client.Channel = Nil
       THEN Panic(World, call)
       ELSE
       LET w1 == LibChannelClose(World, client.Channel, okCh) IN
       IF LastErr(w1) # NilErr
       THEN Commit(w1, call, Ret(FALSE, LastErr(w1)), client, held)
       ELSE IF client.Connection = Nil
       THEN Panic(w1, call)
       ELSE LET w2 == LibConnectionClose(w1, client.Connection, okConn)
            IN Commit(w2, call, Ret(FALSE, LastErr(w2)), client, held)

\* ---- the consumer goroutine and the broker side of a stream -------------
\* variant: a payload that fails to deserialize ends the loop
TaskStep_BreakOnError(i, nilOk) ==
    /\ ~panicked
    /\ i \in DOMAIN consumers
    /\ consumers[i].started
    /\ ~consumers[i].done
    /\ LET s == consumers[i] IN
       IF s.pos < Len(s.delivered)
       THEN LET u == Unmarshal(s.delivered[s.pos + 1]) IN
            consumers' = [consumers EXCEPT
                ![i].pos = s.pos + 1,
                ![i].done = u.err # NilErr,
                ![i].handled = IF u.err # NilErr THEN @ ELSE Append(@, u.msg)]
       ELSE /\ s.closed
            /\ consumers' = [consumers EXCEPT ![i].done = TRUE]
    /\ UNCHANGED <<client, held, conns, chans, lastCall, lastOps, ret, panicked>>

\* variant: the loop does not notice that the stream was closed
TaskStep_NoExit(i, nilOk) ==
    /\ ~panicked
    /\ i \in DOMAIN consumers
    /\ consumers[i].started
    /\ ~consumers[i].done
    /\ LET s == consumers[i] IN
       /\ s.pos < Len(s.delivered)
       /\ LET u == Unmarshal(s.delivered[s.pos + 1]) IN
          consumers' = [consumers EXCEPT
              ![i].pos = s.pos + 1,
              ![i].handled = IF u.err # NilErr THEN @ ELSE Append(@, u.msg)]
    /\ UNCHANGED <<client, held, conns, chans, lastCall, lastOps, ret, panicked>>

\* one iteration of "for d := range messages", or the exit of the loop
TaskStep(i, nilOk) ==
    /\ ~panicked
    /\ i \in DOMAIN consumers
    /\ consumers[i].started
    /\ ~consumers[i].done
    /\ LET s == consumers[i] IN
       IF s.pos < Len(s.delivered)
       THEN LET u == Unmarshal(s.delivered[s.pos + 1]) IN
            IF s.ser = Nil /\ ~nilOk
            THEN /\ panicked' = TRUE
                 /\ consumers' = consumers
            ELSE /\ panicked' = FALSE
                 /\ consumers' = [consumers EXCEPT
                        ![i].pos = s.pos + 1,
                        ![i].handled = IF u.err # NilErr THEN @ ELSE Append(@, u.msg)]
       ELSE /\ s.closed
            /\ consumers' = [consumers EXCEPT ![i].done = TRUE]
            /\ panicked' = FALSE
    /\ UNCHANGED <<client, held, conns, chans,
                   lastCall, lastOps, ret>>

\* number of payloads the broker has delivered so far, on all streams
RECURSIVE Delivered(_)
Delivered(cs) ==
    IF cs = <<>> THEN 0 ELSE Len(Head(cs).delivered) + Delivered(Tail(cs))

\* the broker delivers a payload on an open stream
Deliver(i, body) ==
    /\ ~panicked
    /\ i \in DOMAIN consumers
    /\ ~consumers[i].closed
    /\ Delivered(consumers) < MaxDeliveries
    /\ consumers' = [consumers EXCEPT ![i].delivered = Append(@, body)]
    /\ UNCHANGED <<client, held, conns, chans,
                   lastCall, lastOps, ret, panicked>>

\* the broker cancels the consumer: the library closes the delivery stream
StreamClose(i) ==
    /\ ~panicked
    /\ i \in DOMAIN consumers
    /\ ~consumers[i].closed
    /\ consumers' = [consumers EXCEPT ![i].closed = TRUE]
    /\ UNCHANGED <<client, held, conns, chans,
                   lastCall, lastOps, ret, panicked>>

Init ==
    /\ client = ZeroClient
    /\ held = FALSE
    /\ conns = <<>>
    /\ chans = <<>>
    /\ consumers = <<>>
    /\ lastCall = Call("none", <<>>)
    /\ lastOps = <<>>
    /\ ret = Ret(FALSE, NilErr)
    /\ panicked = FALSE

\* a client built as a struct literal over a connection and a channel the
\* caller opened itself: any of the pointer fields may be left nil
InitLiteral ==
    /\ client \in [Connection : {Nil, 1}, Channel : {Nil, 1}, Exchange : ExchangeNames,
                   Queue : QueueNames, Serializer : {Nil, JSONSerializer}]
    /\ held = TRUE
    /\ conns = <<[open |-> TRUE, closeCalled |-> FALSE]>>
    /\ chans = <<[conn |-> 1, open |-> TRUE, closeCalled |-> FALSE]>>
    /\ consumers = <<>>
    /\ lastCall = Call("none", <<>>)
    /\ lastOps = <<>>
    /\ ret = Ret(FALSE, NilErr)
    /\ panicked = FALSE

\* The outcomes of the library calls of one constructor call: whether dial,
\* channel open, the two declares and the two closes of the teardown
\* succeed.  The outcome of a call that is never issued is not enumerated
\* (it is fixed to TRUE).
Outcomes(exchange, queue) ==
    {o \in [dial : BOOLEAN, ch : BOOLEAN, ex : BOOLEAN, q : BOOLEAN,
            c1 : BOOLEAN, c2 : BOOLEAN] :
        LET exIssued == o.dial /\ o.ch /\ exchange # ""
            exFailed == exIssued /\ ~o.ex
            qIssued == o.dial /\ o.ch /\ ~exFailed /\ queue # ""
            qFailed == qIssued /\ ~o.q
        IN /\ o.dial \/ o.ch
           /\ exIssued \/ o.ex
           /\ qIssued \/ o.q
           /\ exFailed \/ qFailed \/ o.c1
           /\ (o.dial /\ ~o.ch) \/ exFailed \/ qFailed \/ o.c2}

Construct ==
    \E exchange \in ExchangeNames, queue \in QueueNames :
        \E o \in Outcomes(exchange, queue) :
            NewRabbitMQClient(exchange, queue, o.dial, o.ch, o.ex, o.q, o.c1, o.c2)

\* a nil *JSONSerializer is the only one whose methods may panic
NilOutcomes(ser) == IF ser = Nil THEN BOOLEAN ELSE {TRUE}

BindCall == \E k \in BindingKeys, ok \in BOOLEAN : BindQueueToExchange(k, ok)

SendCall ==
    \E m \in Message, nilOk \in NilOutcomes(client.Serializer), ok \in BOOLEAN :
        Send(m, nilOk, ok)

ConsumeCall == \E ok \in BOOLEAN : Consume(ok)

CloseCall == \E okCh, okConn \in BOOLEAN : Close(okCh, okConn)

Task ==
    \E i \in DOMAIN consumers :
        \E nilOk \in NilOutcomes(consumers[i].ser) : TaskStep(i, nilOk)

Broker ==
    \/ \E i \in DOMAIN consumers, b \in Bodies : Deliver(i, b)
    \/ \E i \in DOMAIN consumers : StreamClose(i)

Next ==
    \/ Construct
    \/ BindCall
    \/ SendCall
    \/ ConsumeCall
    \/ CloseCall
    \/ Task
    \/ Broker

Spec == Init /\ [][Next]_vars

\* a program that builds its client as a literal does not call the constructor
NextLiteral ==
    \/ BindCall
    \/ SendCall
    \/ ConsumeCall
    \/ CloseCall
    \/ Task
    \/ Broker

SpecLiteral == InitLiteral /\ [][NextLiteral]_vars

\* A program that only consumes: it builds its client, starts consumers and
\* closes, while the broker delivers and cancels.
NextConsumer ==
    \/ Construct
    \/ ConsumeCall
    \/ CloseCall
    \/ Task
    \/ Broker

\* the Go scheduler runs every runnable goroutine
FairSpec ==
    Init /\ [][NextConsumer]_vars
         /\ \A i \in 1..MaxConsumers : WF_vars(\E nilOk \in BOOLEAN : TaskStep(i, nilOk))

\* ---- reading the trace of the last call ---------------------------------
Calls(name) == {i \in DOMAIN lastOps : lastOps[i].call = name}

Failed(names) == {i \in DOMAIN lastOps : lastOps[i].call \in names /\ lastOps[i].err # NilErr}

Succeeded(name) == {i \in DOMAIN lastOps : lastOps[i].call = name /\ lastOps[i].err = NilErr}

ConstructorSteps == {"Dial", "Channel", "ExchangeDeclare", "QueueDeclare"}
CloseCalls == {"Channel.Close", "Connection.Close"}
ChannelCalls == {"Channel.Close", "ExchangeDeclare", "QueueDeclare", "QueueBind",
                 "Publish", "Channel.Consume"}
Methods == {"BindQueueToExchange", "Send", "Consume", "Close"}

RECURSIVE Decode(_)
Decode(bodies) ==
    IF bodies = <<>> THEN <<>>
    ELSE LET u == Unmarshal(Head(bodies)) IN
         (IF u.err = NilErr THEN <<u.msg>> ELSE <<>>) \o Decode(Tail(bodies))

\* C1: when a step of NewRabbitMQClient (dial, open channel, declare
\* exchange, declare queue) fails, the constructor returns a nil client and
\* that step's error, issues no later step (only the Close calls of the
\* teardown follow), and every connection and channel it opened has had
\* Close called on it.
C1_FailedConstructorTearsDown ==
    lastCall.op = "NewRabbitMQClient" =>
        /\ \A i \in Failed(ConstructorSteps) :
              /\ ~ret.client
              /\ ret.err = lastOps[i].err
              /\ \A j \in DOMAIN lastOps : j > i => lastOps[j].call \in CloseCalls
        /\ ret.err # NilErr =>
              /\ ~ret.client
              /\ \A i \in Succeeded("Dial") : conns[lastOps[i].on].closeCalled
              /\ \A i \in Succeeded("Channel") : chans[lastOps[i].on].closeCalled

C1_Witness ==
    /\ lastCall.op = "NewRabbitMQClient"
    /\ Failed({"QueueDeclare"}) # {}
    /\ Succeeded("ExchangeDeclare") # {}
    /\ ~ret.client
    /\ \E i \in Succeeded("Channel") :
          chans[lastOps[i].on].closeCalled /\ conns[chans[lastOps[i].on].conn].closeCalled

DeclaredBoth ==
    /\ \E i \in Succeeded("ExchangeDeclare") :
          lastOps[i].on = client.Channel /\ lastOps[i].args[1] = lastCall.args[1]
    /\ \E i \in Succeeded("QueueDeclare") :
          lastOps[i].on = client.Channel /\ lastOps[i].args[1] = lastCall.args[2]

ReturnedNamedClient ==
    /\ lastCall.op = "NewRabbitMQClient"
    /\ ret.client
    /\ ret.err = NilErr
    /\ lastCall.args[1] # ""
    /\ lastCall.args[2] # ""

\* C2 as stated: a client returned for non-empty names has its exchange
\* declared, its queue declared and the queue bound to the exchange before
\* the constructor returns.
C2_Original ==
    ReturnedNamedClient =>
        /\ DeclaredBoth
        /\ \E i \in Succeeded("QueueBind") :
              lastOps[i].args[1] = lastCall.args[2] /\ lastOps[i].args[3] = lastCall.args[1]

\* C2: a client returned for non-empty names has its exchange declared and
\* its queue declared before the constructor returns; the constructor issues
\* no QueueBind, binding is left to BindQueueToExchange.
C2_DeclaredNotBound ==
    ReturnedNamedClient => DeclaredBoth /\ Calls("QueueBind") = {}

C2_Witness ==
    /\ ReturnedNamedClient
    /\ held
    /\ client.Exchange = "ex"
    /\ client.Queue = "q"
    /\ Len(lastOps) = 4

\* C3 as stated: every Close call invokes both Channel.Close and
\* Connection.Close, also when closing the channel fails, and returns the
\* first failure encountered.
C3_CloseAttemptsBoth ==
    lastCall.op = "Close" =>
        /\ Calls("Channel.Close") # {}
        /\ Calls("Connection.Close") # {}
        /\ \A i \in Failed(CloseCalls) :
              (\A j \in Failed(CloseCalls) : i <= j) => ret.err = lastOps[i].err

\* C4 as stated: no call is issued on a channel whose connection has been
\* closed, and the channel and the connection of a client are closed
\* together: never exactly one of the two is closed, after Close or after a
\* failed constructor.
C4_ClosedTogetherNeverUsedAfter ==
    /\ \A i \in DOMAIN lastOps : lastOps[i].call \in ChannelCalls => lastOps[i].live
    /\ held => chans[client.Channel].open = conns[client.Connection].open
    /\ (lastCall.op = "NewRabbitMQClient" /\ ret.err # NilErr) =>
          \A i \in Succeeded("Channel") :
              chans[lastOps[i].on].open = conns[chans[lastOps[i].on].conn].open

\* C5: Send and Consume on a client whose Connection or Channel is nil
\* return an error and do nothing else: no Marshal, no Publish, no
\* Channel.Consume and no goroutine.
C5_NilFieldsRejected ==
    (lastCall.op \in {"Send", "Consume"} /\ (client.Connection = Nil \/ client.Channel = Nil)) =>
        /\ ret.err = (IF client.Connection = Nil THEN ErrNoConnection ELSE ErrNoChannel)
        /\ lastOps = <<>>
        /\ consumers = <<>>

C5_Witness ==
    /\ lastCall.op = "Consume"
    /\ client.Connection # Nil
    /\ client.Channel = Nil
    /\ ret.err = ErrNoChannel

\* C6: on every delivery stream the handler has been invoked exactly once
\* for each payload taken from the stream that deserializes, in delivery
\* order, and not at all for a malformed one; a malformed payload does not
\* end the loop.
C6_HandledInOrder ==
    \A i \in DOMAIN consumers :
        LET s == consumers[i] IN
        /\ s.handled = Decode(SubSeq(s.delivered, 1, s.pos))
        /\ s.done => s.pos = Len(s.delivered)

C6_Witness ==
    \E i \in DOMAIN consumers :
        LET s == consumers[i] IN
        /\ s.pos = 2
        /\ s.delivered[1] = Malformed
        /\ Unmarshal(s.delivered[2]).err = NilErr
        /\ s.handled = <<Unmarshal(s.delivered[2]).msg>>

SentMessage == [rk |-> lastCall.args[1], payload |-> lastCall.args[2]]

\* C7: when Send returns nil exactly one Publish was issued, on the client's
\* channel, to the client's exchange, with the message's routing key and a
\* body equal to Marshal(message); when Marshal or Publish fails Send
\* returns that error and no further Publish is issued.
C7_SendPublishesOnce ==
    (lastCall.op = "Send" /\ ret.err \notin {ErrNoConnection, ErrNoChannel}) =>
        /\ ret.err = NilErr =>
              /\ Cardinality(Calls("Publish")) = 1
              /\ \A i \in Calls("Publish") :
                    /\ lastOps[i].on = client.Channel
                    /\ lastOps[i].args[1] = client.Exchange
                    /\ lastOps[i].args[2] = SentMessage.rk
                    /\ lastOps[i].body = Marshal(SentMessage).body
                    /\ lastOps[i].err = NilErr
        /\ Marshal(SentMessage).err # NilErr =>
              ret.err = Marshal(SentMessage).err /\ Calls("Publish") = {}
        /\ \A i \in Failed({"Publish"}) :
              ret.err = lastOps[i].err /\ Cardinality(Calls("Publish")) = 1

C7_Witness ==
    /\ lastCall.op = "Send"
    /\ ret.err = NilErr
    /\ SentMessage.rk = "k2"
    /\ \E i \in Calls("Publish") : lastOps[i].body = <<"{", "k2", "p", "}">>

\* C8: a constructor call with an empty queue name issues no QueueDeclare
\* and returns a client when dial, channel open and the declaration of a
\* non-empty exchange succeed; with an empty exchange name it issues no
\* ExchangeDeclare.
C8_EmptyNameSkipsDeclare ==
    lastCall.op = "NewRabbitMQClient" =>
        /\ lastCall.args[2] = "" =>
              /\ Calls("QueueDeclare") = {}
              /\ (/\ Succeeded("Dial") # {}
                  /\ Succeeded("Channel") # {}
                  /\ lastCall.args[1] # "" => Succeeded("ExchangeDeclare") # {})
                 => ret.client /\ ret.err = NilErr
        /\ lastCall.args[1] = "" => Calls("ExchangeDeclare") = {}

C8_Witness ==
    /\ lastCall.op = "NewRabbitMQClient"
    /\ lastCall.args = <<"ex", "">>
    /\ ret.client
    /\ Succeeded("ExchangeDeclare") # {}
    /\ Calls("QueueDeclare") = {}

ConsumeStartsOne ==
    lastCall.op = "Consume" =>
        IF ret.err = NilErr
        THEN /\ Cardinality(Calls("go")) = 1
             /\ \A i \in Calls("go") : consumers[lastOps[i].on].started
        ELSE Calls("go") = {}

\* a stream, and the goroutine on it, appear only in a step that is a
\* Consume call returning nil, one per call, and that step handles nothing
ConsumeReturnsAtOnce ==
    Len(consumers') # Len(consumers) =>
        /\ Len(consumers') = Len(consumers) + 1
        /\ lastCall'.op = "Consume"
        /\ ret'.err = NilErr
        /\ LET s == consumers'[Len(consumers')] IN
              s.started /\ ~s.done /\ s.pos = 0 /\ s.handled = <<>>

\* C9: a Consume call that returns nil has started exactly one goroutine and
\* returned before anything was handled; one that returns an error has
\* started none; and the goroutine of a stream the broker has closed
\* terminates, after the payloads already delivered were processed.
C9_OneTaskPerConsume ==
    /\ []ConsumeStartsOne
    /\ [][ConsumeReturnsAtOnce]_vars
    /\ \A i \in 1..MaxConsumers :
          (i \in DOMAIN consumers /\ consumers[i].closed)
              ~> (/\ i \in DOMAIN consumers
                  /\ consumers[i].done
                  /\ consumers[i].pos = Len(consumers[i].delivered))

C9_Witness ==
    \E i \in DOMAIN consumers :
        /\ consumers[i].done
        /\ consumers[i].closed
        /\ consumers[i].pos = 2
        /\ lastCall.op = "Consume"
        /\ ret.err = NilErr

\* a step in which one of the four methods returns (or panics)
MethodStep == lastCall'.op \in Methods /\ <<lastCall, lastOps, ret>>' # <<lastCall, lastOps, ret>>

ClosedClientStillUsed ==
    (held /\ lastCall.op \in Methods) =>
        /\ client.Connection # Nil
        /\ client.Channel # Nil
        /\ (lastCall.op = "Send" /\ chans[client.Channel].closeCalled) =>
              /\ ret.err \notin {ErrNoConnection, ErrNoChannel}
              /\ Marshal(SentMessage).err = NilErr =>
                    \E i \in Calls("Publish") :
                        lastOps[i].on = client.Channel /\ lastOps[i].err = ErrClosed
        /\ (lastCall.op = "Consume" /\ chans[client.Channel].closeCalled) =>
              \E i \in Calls("Channel.Consume") :
                  lastOps[i].on = client.Channel /\ lastOps[i].err = ErrClosed

\* C10: BindQueueToExchange, Send, Consume and Close leave the five fields
\* of the client unchanged; after Close, Connection and Channel are still
\* non-nil, so a later Send or Consume passes the "does not exist" checks
\* and calls Publish or Channel.Consume on the closed channel.
C10_FieldsUnchanged ==
    /\ [][MethodStep => (client' = client /\ held' = held)]_vars
    /\ []ClosedClientStillUsed

C10_Witness ==
    /\ lastCall.op = "Send"
    /\ chans[client.Channel].closeCalled
    /\ conns[client.Connection].closeCalled
    /\ \E i \in Calls("Publish") : lastOps[i].err = ErrClosed
====
